---------------------------- MODULE Spec2Model ----------------------------
(***************************************************************************)
(* HidenCloud login and renewal script (src/main.py).                      *)
(*                                                                         *)
(* One run of main(): configuration loading, cookie-first login with the   *)
(* e-mail/password fallback, the renewal transaction, the README report    *)
(* and the process exit code.  Every browser call is a step whose outcome  *)
(* (success, timeout/exception, what the page shows) is chosen by the      *)
(* environment.  Text is a sequence of one-character strings, so that      *)
(* splitting, padding and parsing are computed as the code computes them.  *)
(* An optional value (Python None or a value) is a set of at most one      *)
(* element.                                                                *)
(***************************************************************************)
EXTENDS Naturals, Sequences, FiniteSets

VARIABLES
    pc,            \* position in main() / login() / the renewal transaction
    env,           \* the process environment variables
    cookie_value,  \* self.cookie_value
    email,         \* self.email
    password,      \* self.password
    run_results,   \* self.run_results
    page_url,      \* which page the browser is on
    cookies,       \* names in the browser context's cookie store
    browser,       \* "none", "open", "closed"
    strategy,      \* login strategy under which the renewal runs
    success,       \* return value of login()
    readme,        \* status text written to README.md
    exit_code,     \* argument of sys.exit
    calls,         \* how many times each traced operation was performed
    obs,           \* what the environment showed at each observation point
    screenshots,   \* names with which _take_screenshot was called
    date_parts,    \* the tokens the argument was written from (conversion check)
    date_str,      \* argument of _convert_date_format (conversion check)
    converted      \* its return value (conversion check)

vars == <<pc, env, cookie_value, email, password, run_results, page_url,
          cookies, browser, strategy, success, readme, exit_code, calls,
          obs, screenshots, date_parts, date_str, converted>>

runVars == <<pc, env, cookie_value, email, password, run_results, page_url,
             cookies, browser, strategy, success, readme, exit_code, calls,
             obs, screenshots>>

-----------------------------------------------------------------------------
(* Optional values and text helpers *)

None == {}
Some(v) == {v}
TheValue(o) == CHOOSE v \in o : TRUE

\* Python truthiness of an optional string
TruthyStr(o) == o # None /\ o # Some(<<>>)
\* Python truthiness of an optional int
TruthyInt(o) == o # None /\ o # Some(0)

Digits == {"0", "1", "2", "3", "4", "5", "6", "7", "8", "9"}

DigitValue(c) ==
    CASE c = "0" -> 0 [] c = "1" -> 1 [] c = "2" -> 2 [] c = "3" -> 3
      [] c = "4" -> 4 [] c = "5" -> 5 [] c = "6" -> 6 [] c = "7" -> 7
      [] c = "8" -> 8 [] c = "9" -> 9

\* int(s) for a string of decimal digits
RECURSIVE int(_)
int(s) ==
    IF s = <<>> THEN 0
    ELSE int(SubSeq(s, 1, Len(s) - 1)) * 10 + DigitValue(s[Len(s)])

\* str.split(): split on runs of whitespace, no empty tokens
RECURSIVE split_from(_, _)
split_from(s, cur) ==
    IF s = <<>> THEN (IF cur = <<>> THEN <<>> ELSE <<cur>>)
    ELSE IF Head(s) = " "
         THEN (IF cur = <<>> THEN split_from(Tail(s), <<>>)
                             ELSE <<cur>> \o split_from(Tail(s), <<>>))
         ELSE split_from(Tail(s), Append(cur, Head(s)))

split(s) == split_from(s, <<>>)

\* str.strip()
RECURSIVE lstrip(_)
lstrip(s) == IF s # <<>> /\ Head(s) = " " THEN lstrip(Tail(s)) ELSE s

RECURSIVE rstrip(_)
rstrip(s) ==
    IF s # <<>> /\ s[Len(s)] = " " THEN rstrip(SubSeq(s, 1, Len(s) - 1)) ELSE s

strip(s) == rstrip(lstrip(s))

\* str.split(sep): split on every occurrence of sep, empty parts kept
RECURSIVE split_sep_from(_, _, _)
split_sep_from(s, sep, cur) ==
    IF s = <<>> THEN <<cur>>
    ELSE IF Head(s) = sep
         THEN <<cur>> \o split_sep_from(Tail(s), sep, <<>>)
         ELSE split_sep_from(Tail(s), sep, Append(cur, Head(s)))

split_sep(s, sep) == split_sep_from(s, sep, <<>>)

\* str.zfill(width): zeros go after a leading sign
RECURSIVE zeros(_)
zeros(n) == IF n = 0 THEN <<>> ELSE <<"0">> \o zeros(n - 1)

zfill(s, width) ==
    IF Len(s) >= width THEN s
    ELSE IF s # <<>> /\ Head(s) \in {"+", "-"}
         THEN <<Head(s)>> \o zeros(width - Len(s)) \o Tail(s)
         ELSE zeros(width - Len(s)) \o s

-----------------------------------------------------------------------------
(* 6. Date conversion: _convert_date_format *)

Jan == <<"J", "a", "n">>
Feb == <<"F", "e", "b">>
Mar == <<"M", "a", "r">>
Apr == <<"A", "p", "r">>
May == <<"M", "a", "y">>
Jun == <<"J", "u", "n">>
Jul == <<"J", "u", "l">>
Aug == <<"A", "u", "g">>
Sep == <<"S", "e", "p">>
Oct == <<"O", "c", "t">>
Nov == <<"N", "o", "v">>
Dec == <<"D", "e", "c">>

MonthNames == <<Jan, Feb, Mar, Apr, May, Jun, Jul, Aug, Sep, Oct, Nov, Dec>>

\* month_map: the keys in the order of their numbers '01' .. '12'
month_map_keys == {MonthNames[i] : i \in 1..Len(MonthNames)}

month_map(k) ==
    LET i == CHOOSE j \in 1..Len(MonthNames) : MonthNames[j] = k
    IN  IF i < 10 THEN <<"0", CHOOSE d \in Digits : DigitValue(d) = i>>
        ELSE <<"1", CHOOSE d \in Digits : DigitValue(d) = i - 10>>

\* month_map.get(key, default)
month_map_get(k, default) == IF k \in month_map_keys THEN month_map(k) ELSE default

\* variant: an unknown month leaves the input unconverted (no default "00")
_convert_date_format_nodefault(s) ==
    LET parts == split(strip(s))
    IN  IF Len(parts) = 3 /\ parts[2] \in month_map_keys
        THEN parts[3] \o <<"-">> \o month_map(parts[2]) \o <<"-">> \o zfill(parts[1], 2)
        ELSE s

_convert_date_format(s) ==
    LET parts == split(strip(s))
    IN  IF Len(parts) = 3
        THEN LET day   == zfill(parts[1], 2)
                 month == month_map_get(parts[2], <<"0", "0">>)
                 year  == parts[3]
             IN  year \o <<"-">> \o month \o <<"-">> \o day
        ELSE s

-----------------------------------------------------------------------------
(* Bounds of the model *)

\* longest digit string N in the restriction message "expires in N days"
MaxDigits == 2
\* how many different due dates the service page can show
NumDates == 3
\* most whitespace-separated tokens in an input of the conversion check
MaxTokens == 3

-----------------------------------------------------------------------------
(* The environment: configuration and what the pages can show *)

Str_u_p   == <<"u", ":", "p">>
Str_u_p_q == <<"u", ":", "p", ":", "q">>
Str_up    == <<"u", "p">>
Str_p     == <<":", "p">>

\* HIDENCLOUD_SERVERS: unset/empty, not JSON, an empty list, or a usable list
ServerEnvs == {"unset", "invalid_json", "empty_list", "ok"}
\* REMEMBER_WEB_COOKIE
CookieEnvs == {None, Some(<<>>), Some(<<"t">>)}
\* HIDENCLOUD_ACCOUNT
AccountEnvs == {None, Some(<<>>), Some(Str_u_p), Some(Str_u_p_q), Some(Str_up), Some(Str_p)}

\* the digit strings the restriction message can carry
DayDigits == {"0", "1", "3"}
RECURSIVE DigitStrings(_)
DigitStrings(n) ==
    IF n = 0 THEN {}
    ELSE DigitStrings(n - 1) \cup
         {s \in [1..n -> DayDigits] : TRUE}

\* a restriction message: with "expires in N days" (N a digit string) or without
Messages == {None} \cup {Some(d) : d \in DigitStrings(MaxDigits)}

\* the due dates the page shows, in chronological order
DateYear == <<"2", "0", "2", "5">>
RECURSIVE DayText(_)
DayText(i) ==
    IF i < 10 THEN <<CHOOSE d \in Digits : DigitValue(d) = i>>
    ELSE DayText(i \div 10) \o <<CHOOSE d \in Digits : DigitValue(d) = i % 10>>

\* the i-th date: days 7, 14, 21, 28 of one month, then of the next
DueDateText(i) ==
    DayText(7 * (((i - 1) % 4) + 1)) \o <<" ">> \o MonthNames[(((i - 1) \div 4) % 12) + 1]
        \o <<" ">> \o DateYear

\* the text of the element holding the date: the date alone, or with a remark
Remark == <<" ", "(", "s", "o", "o", "n", ")">>
DateElementText(i, remark) == IF remark THEN DueDateText(i) \o Remark ELSE DueDateText(i)

\* what a due-date lookup can meet
DueDateLookups ==
    {[kind |-> k, date |-> 0, remark |-> FALSE] : k \in {"error", "date_hidden"}}
    \cup {[kind |-> "label_hidden", date |-> i, remark |-> FALSE] : i \in 0..NumDates}
    \cup {[kind |-> "found", date |-> i, remark |-> r] : i \in 1..NumDates, r \in BOOLEAN}

-----------------------------------------------------------------------------
(* 1. Configuration loading *)

\* _load_server_config: TRUE when it returns, FALSE when it raises
_load_server_config(servers) == servers = "ok"

\* _load_credentials: the (cookie_value, email, password) it leaves
_load_credentials(e) ==
    LET parts == IF TruthyStr(e.account) THEN split_sep(TheValue(e.account), ":") ELSE <<>>
    IN  [cookie_value |-> e.cookie,
         email    |-> IF Len(parts) = 2 THEN Some(parts[1]) ELSE None,
         password |-> IF Len(parts) = 2 THEN Some(parts[2]) ELSE None]


\* variant: any one of the three values is enough
_validate_config_any(c) ==
    TruthyStr(c.cookie_value) \/ TruthyStr(c.email) \/ TruthyStr(c.password)

\* _validate_config: TRUE when it returns, FALSE when it raises
_validate_config(c) ==
    ~(~TruthyStr(c.cookie_value) /\ ~(TruthyStr(c.email) /\ TruthyStr(c.password)))

\* variant: `is not None` tests in place of truthiness
HasPair_not_none == email # None /\ password # None

\* `self.email and self.password`
HasPair == TruthyStr(email) /\ TruthyStr(password)

-----------------------------------------------------------------------------
(* 8. Helpers *)

\* _extract_remaining_days: the number after "expires in", None without a match
_extract_remaining_days(message) ==
    IF message # None THEN Some(int(TheValue(message))) ELSE None

\* variant: the test negated
_is_login_required_inverted(url) == url # "login"

\* _is_login_required
_is_login_required(url) == url = "login"

\* _take_screenshot: a failure to save is logged and swallowed, so the caller
\* goes on either way; the names it was called with are kept
_take_screenshot(status) == screenshots' = screenshots \cup {status}

no_screenshot == UNCHANGED screenshots

CallNames == {"_try_cookie_login", "_try_password_login", "goto_login", "_perform_renewal",
              "click_renew", "_check_renewal_restriction", "_check_renewal_confirmation",
              "click_create_invoice", "click_pay", "generate_readme", "click_submit"}

Called(names) == calls' = [n \in CallNames |-> IF n \in names THEN calls[n] + 1 ELSE calls[n]]

Observe(field, value) == obs' = [obs EXCEPT ![field] = value]

\* variant: a cookie login whose renewal left the status Unknown reports failure,
\* so that login() falls back to the password login
Return_unless_unknown(result) ==
    IF result /\ strategy = "cookie" /\ run_results.renewal_status = "Unknown"
    THEN pc' = "password" /\ UNCHANGED success
    ELSE success' = Some(result) /\ pc' = "teardown"

\* the strategy returns `result` to login()
Return(result) == success' = Some(result) /\ pc' = "teardown"

-----------------------------------------------------------------------------
(* Initial state: the process starts with some environment *)

NoObs == [cookie_goto |-> "none", challenge |-> "none", submit |-> "none",
          dashboard |-> "none",
          target |-> "none",
          due_before |-> None, renew |-> "none", dialog |-> {},
          restriction |-> "none", message |-> None, confirmation |-> "none",
          invoice |-> "none", redirect |-> "none", detect |-> "none",
          due_after |-> None]

Envs == [servers : ServerEnvs, cookie : CookieEnvs, account : AccountEnvs]

\* the process before main() runs, in environment e
InitRun(e) ==
    /\ pc = "start"
    /\ env = e
    /\ cookie_value = None
    /\ email = None
    /\ password = None
    /\ run_results = [renewal_status |-> "Unconstructed", remaining_days |-> None,
                      old_due_date |-> None, new_due_date |-> None]
    /\ page_url = "blank"
    /\ cookies = {}
    /\ browser = "none"
    /\ strategy = "none"
    /\ success = None
    /\ readme = None
    /\ exit_code = None
    /\ calls = [n \in CallNames |-> 0]
    /\ obs = NoObs
    /\ screenshots = {}

Init ==
    /\ \E e \in Envs : InitRun(e)
    /\ date_parts = <<>>
    /\ date_str = <<>>
    /\ converted = None

-----------------------------------------------------------------------------
(* main(): construction *)

\* HidenCloudLogin(): a configuration error is raised to main, which exits 1
__init__ ==
    /\ pc = "start"
    /\ LET c == _load_credentials(env)
       IN  IF _load_server_config(env.servers) /\ _validate_config(c)
           THEN /\ cookie_value' = c.cookie_value
                /\ email' = c.email
                /\ password' = c.password
                /\ run_results' = [run_results EXCEPT !.renewal_status = "Unknown"]
                /\ pc' = "login"
                /\ UNCHANGED exit_code
           ELSE /\ exit_code' = Some(1)
                /\ pc' = "exited"
                /\ UNCHANGED <<cookie_value, email, password, run_results>>
    /\ UNCHANGED <<env, page_url, cookies, browser, strategy, success, readme,
                   calls, obs, screenshots, date_parts, date_str, converted>>

-----------------------------------------------------------------------------
(* 2. login(): browser start *)



\* variant: the password login is tried first
login_start_password_first ==
    /\ pc = "login"
    /\ \E outcome \in {"ok", "launch_error", "page_error"} :
         IF outcome = "ok"
         THEN /\ browser' = "open"
              /\ pc' = "password"
              /\ UNCHANGED success
         ELSE /\ browser' = IF outcome = "launch_error" THEN "none" ELSE "closed"
              /\ success' = Some(FALSE)
              /\ pc' = "report"
    /\ UNCHANGED <<env, cookie_value, email, password, run_results, page_url, cookies,
                   strategy, readme, exit_code, calls, obs, screenshots,
                   date_parts, date_str, converted>>

\* variant: an exception of the browser start escapes login() and main() exits
\* on it without a report
login_start_uncaught ==
    /\ pc = "login"
    /\ \E outcome \in {"ok", "launch_error", "page_error"} :
         IF outcome = "ok"
         THEN /\ browser' = "open"
              /\ pc' = "cookie"
              /\ UNCHANGED <<success, exit_code>>
         ELSE /\ browser' = IF outcome = "launch_error" THEN "none" ELSE "closed"
              /\ success' = Some(FALSE)
              /\ exit_code' = Some(1)
              /\ pc' = "exited"
    /\ UNCHANGED <<env, cookie_value, email, password, run_results, page_url, cookies,
                   strategy, readme, calls, obs, screenshots,
                   date_parts, date_str, converted>>

\* launch, new_context, new_page; an exception leaves login() with False
login_start ==
    /\ pc = "login"
    /\ \E outcome \in {"ok", "launch_error", "page_error"} :
         IF outcome = "ok"
         THEN /\ browser' = "open"
              /\ pc' = "cookie"
              /\ UNCHANGED success
         ELSE /\ browser' = IF outcome = "launch_error" THEN "none" ELSE "closed"
              /\ success' = Some(FALSE)
              /\ pc' = "report"
    /\ UNCHANGED <<env, cookie_value, email, password, run_results, page_url, cookies,
                   strategy, readme, exit_code, calls, obs, screenshots,
                   date_parts, date_str, converted>>

-----------------------------------------------------------------------------
(* 3. Cookie login *)

\* no cookie: the attempt is skipped and reports failure
_try_cookie_login_skip ==
    /\ pc = "cookie"
    /\ ~TruthyStr(cookie_value)
    /\ Called({"_try_cookie_login"})
    /\ pc' = "password"
    /\ UNCHANGED <<env, cookie_value, email, password, run_results, page_url, cookies,
                   browser, strategy, success, readme, exit_code, obs,                    screenshots, date_parts, date_str, converted>>

\* _set_cookies: add_cookies may raise, which ends the cookie attempt
_set_cookies ==
    /\ pc = "cookie"
    /\ TruthyStr(cookie_value)
    /\ Called({"_try_cookie_login"})
    /\ \E added \in BOOLEAN :
         IF added
         THEN cookies' = cookies \cup {"remember_web"} /\ pc' = "cookie_goto"
         ELSE UNCHANGED cookies /\ pc' = "password"
    /\ UNCHANGED <<env, cookie_value, email, password, run_results, page_url, browser,
                   strategy, success, readme, exit_code, obs, screenshots,
                   date_parts, date_str, converted>>

\* variant: a cookie that landed on the login page is left in the store
_try_cookie_login_goto_keeping ==
    /\ pc = "cookie_goto"
    /\ \E landed \in {"target", "login", "error"}, cleared \in BOOLEAN :
         /\ IF landed = "error"
            THEN /\ Observe("cookie_goto", landed)
                 /\ pc' = "password"
                 /\ UNCHANGED <<page_url, cookies, strategy>>
                 /\ no_screenshot
            ELSE IF _is_login_required(landed)
            THEN /\ Observe("cookie_goto", IF cleared THEN landed ELSE "login_clear_error")
                 /\ page_url' = landed
                 /\ UNCHANGED cookies
                 /\ pc' = "password"
                 /\ UNCHANGED strategy
                 /\ no_screenshot
            ELSE /\ Observe("cookie_goto", landed)
                 /\ page_url' = landed
                 /\ _take_screenshot("cookie_success")
                 /\ strategy' = "cookie"
                 /\ pc' = "renewal"
                 /\ UNCHANGED cookies
    /\ UNCHANGED <<env, cookie_value, email, password, run_results, browser, success,
                   readme, exit_code, calls, date_parts, date_str, converted>>

\* page.goto(server_url) with the cookie set, and the login-page test; on the
\* login page clear_cookies() runs, and its exception is caught like goto's
_try_cookie_login_goto ==
    /\ pc = "cookie_goto"
    /\ \E landed \in {"target", "login", "error"}, cleared \in BOOLEAN :
         /\ IF landed = "error"
            THEN /\ Observe("cookie_goto", landed)
                 /\ pc' = "password"
                 /\ UNCHANGED <<page_url, cookies, strategy>>
                 /\ no_screenshot
            ELSE IF _is_login_required(landed)
            THEN /\ Observe("cookie_goto", IF cleared THEN landed ELSE "login_clear_error")
                 /\ page_url' = landed
                 /\ cookies' = IF cleared THEN {} ELSE cookies
                 /\ pc' = "password"
                 /\ UNCHANGED strategy
                 /\ no_screenshot
            ELSE /\ Observe("cookie_goto", landed)
                 /\ page_url' = landed
                 /\ _take_screenshot("cookie_success")
                 /\ strategy' = "cookie"
                 /\ pc' = "renewal"
                 /\ UNCHANGED cookies
    /\ UNCHANGED <<env, cookie_value, email, password, run_results, browser, success,
                   readme, exit_code, calls, date_parts, date_str, converted>>

-----------------------------------------------------------------------------
(* 4. E-mail and password login *)

\* the except branch of _try_password_login
password_failed ==
    /\ _take_screenshot("password_failed")
    /\ Return(FALSE)

\* no e-mail/password pair: returns False at once
_try_password_login_skip ==
    /\ pc = "password"
    /\ ~HasPair
    /\ Called({"_try_password_login"})
    /\ Return(FALSE)
    /\ UNCHANGED <<env, cookie_value, email, password, run_results, page_url, cookies,
                   browser, strategy, readme, exit_code, obs, screenshots,
                   date_parts, date_str, converted>>

\* page.goto(login_url)
_try_password_login_goto ==
    /\ pc = "password"
    /\ HasPair
    /\ Called({"_try_password_login", "goto_login"})
    /\ \E loaded \in BOOLEAN :
         IF loaded
         THEN /\ page_url' = "login"
              /\ pc' = "pw_fill"
              /\ no_screenshot
              /\ UNCHANGED success
         ELSE /\ password_failed
              /\ UNCHANGED page_url
    /\ UNCHANGED <<env, cookie_value, email, password, run_results, cookies, browser,
                   strategy, readme, exit_code, obs, date_parts, date_str, converted>>

\* page.fill of the two fields
_try_password_login_fill ==
    /\ pc = "pw_fill"
    /\ \E filled \in BOOLEAN :
         IF filled
         THEN pc' = "pw_cloudflare" /\ no_screenshot /\ UNCHANGED success
         ELSE password_failed
    /\ UNCHANGED <<env, cookie_value, email, password, run_results, page_url, cookies,
                   browser, strategy, readme, exit_code, calls, obs, date_parts, date_str, converted>>


\* variant: a failure of the challenge step reaches the except branch of
\* _try_password_login
_handle_cloudflare_verification_raising ==
    /\ pc = "pw_cloudflare"
    /\ \E outcome \in {"absent", "click_error", "token_timeout", "cleared"} :
         /\ Observe("challenge", outcome)
         /\ IF outcome \in {"click_error", "token_timeout"}
            THEN password_failed
            ELSE pc' = "pw_submit" /\ UNCHANGED <<success, screenshots>>
    /\ UNCHANGED <<env, cookie_value, email, password, run_results, page_url, cookies,
                   browser, strategy, readme, exit_code, calls, date_parts, date_str, converted>>

\* _handle_cloudflare_verification: every failure is logged and swallowed
_handle_cloudflare_verification ==
    /\ pc = "pw_cloudflare"
    /\ \E outcome \in {"absent", "click_error", "token_timeout", "cleared"} :
         Observe("challenge", outcome)
    /\ pc' = "pw_submit"
    /\ UNCHANGED <<env, cookie_value, email, password, run_results, page_url, cookies,
                   browser, strategy, success, readme, exit_code, calls, screenshots, date_parts, date_str, converted>>

\* page.click on the submit button
_try_password_login_submit ==
    /\ pc = "pw_submit"
    /\ Called({"click_submit"})
    /\ \E clicked \in BOOLEAN :
         IF clicked
         THEN /\ Observe("submit", "clicked")
              /\ pc' = "pw_wait" /\ no_screenshot /\ UNCHANGED success
         ELSE /\ Observe("submit", "error")
              /\ password_failed
    /\ UNCHANGED <<env, cookie_value, email, password, run_results, page_url, cookies,
                   browser, strategy, readme, exit_code, date_parts, date_str, converted>>

\* page.wait_for_url(dashboard) and the login-page test after it
_try_password_login_wait ==
    /\ pc = "pw_wait"
    /\ \E landed \in {"dashboard", "login", "timeout"} :
         /\ Observe("dashboard", landed)
         /\ IF landed = "timeout"
            THEN password_failed /\ UNCHANGED page_url
            ELSE IF _is_login_required(landed)
            THEN /\ page_url' = landed
                 /\ _take_screenshot("password_failed")
                 /\ Return(FALSE)
            ELSE /\ page_url' = landed
                 /\ pc' = "pw_target"
                 /\ no_screenshot
                 /\ UNCHANGED success
    /\ UNCHANGED <<env, cookie_value, email, password, run_results, cookies, browser,
                   strategy, readme, exit_code, calls, date_parts, date_str, converted>>

\* page.goto(server_url) after the password login
_try_password_login_target ==
    /\ pc = "pw_target"
    /\ \E loaded \in BOOLEAN :
         IF loaded
         THEN /\ Observe("target", "loaded")
              /\ page_url' = "target"
              /\ _take_screenshot("password_success")
              /\ strategy' = "password"
              /\ pc' = "renewal"
              /\ UNCHANGED success
         ELSE /\ Observe("target", "error")
              /\ password_failed
              /\ UNCHANGED <<page_url, strategy>>
    /\ UNCHANGED <<env, cookie_value, email, password, run_results, cookies, browser,
                   readme, exit_code, calls, date_parts, date_str, converted>>

-----------------------------------------------------------------------------
(* 6. Due date recording *)

\* _record_due_date: run_results after the lookup; a failed lookup changes nothing
\* variant: the stage is ignored and the date always stored as old_due_date
_record_due_date_swapped(stage, lookup) ==
    IF lookup.kind = "found"
    THEN LET due_date_raw == strip(DateElementText(lookup.date, lookup.remark))
             due_date_formatted == _convert_date_format(due_date_raw)
         IN  [run_results EXCEPT !.old_due_date = Some(due_date_formatted)]
    ELSE run_results

_record_due_date(stage, lookup) ==
    IF lookup.kind = "found"
    THEN LET due_date_raw == strip(DateElementText(lookup.date, lookup.remark))
             due_date_formatted == _convert_date_format(due_date_raw)
         IN  IF stage = "before"
             THEN [run_results EXCEPT !.old_due_date = Some(due_date_formatted)]
             ELSE [run_results EXCEPT !.new_due_date = Some(due_date_formatted)]
    ELSE run_results

-----------------------------------------------------------------------------
(* 5. Renewal *)


\* variant: a failed lookup of the due date ends _perform_renewal
_perform_renewal_record_aborting ==
    /\ pc = "renewal"
    /\ Called({"_perform_renewal"})
    /\ \E lookup \in DueDateLookups :
         /\ run_results' = _record_due_date("before", lookup)
         /\ Observe("due_before", Some(lookup))
         /\ IF lookup.kind = "found"
            THEN pc' = "renew_locate" /\ UNCHANGED success
            ELSE Return(TRUE)
    /\ UNCHANGED <<env, cookie_value, email, password, page_url, cookies, browser,
                   strategy, readme, exit_code, screenshots,
                   date_parts, date_str, converted>>

\* _perform_renewal, step 1: the due date before the renewal
_perform_renewal_record ==
    /\ pc = "renewal"
    /\ Called({"_perform_renewal"})
    /\ \E lookup \in DueDateLookups :
         /\ run_results' = _record_due_date("before", lookup)
         /\ Observe("due_before", Some(lookup))
    /\ pc' = "renew_locate"
    /\ UNCHANGED <<env, cookie_value, email, password, page_url, cookies, browser,
                   strategy, success, readme, exit_code, screenshots,
                   date_parts, date_str, converted>>

\* what the Renew button lookup can meet
RenewOutcomes == {"timeout", "error", "disabled", "click_error", "clicked"}


\* variant: a failure at the Renew button escapes _perform_renewal, so that the
\* strategy that called it reports failure
_perform_renewal_click_raising ==
    /\ pc = "renew_locate"
    /\ \E outcome \in RenewOutcomes, dialog \in SUBSET {"restricted", "confirm"} :
         IF outcome = "clicked"
         THEN /\ Called({"click_renew"})
              /\ obs' = [obs EXCEPT !.renew = outcome, !.dialog = dialog]
              /\ pc' = "dialog"
              /\ no_screenshot
              /\ UNCHANGED success
         ELSE IF outcome = "disabled"
         THEN /\ Observe("renew", outcome)
              /\ UNCHANGED calls
              /\ no_screenshot
              /\ Return(TRUE)
         ELSE /\ Observe("renew", outcome)
              /\ IF outcome = "click_error" THEN Called({"click_renew"}) ELSE UNCHANGED calls
              /\ _take_screenshot("renewal_failed")
              /\ IF strategy = "cookie"
                 THEN pc' = "password" /\ UNCHANGED success
                 ELSE Return(FALSE)
    /\ UNCHANGED <<env, cookie_value, email, password, run_results, page_url, cookies,
                   browser, strategy, readme, exit_code, date_parts, date_str, converted>>

\* variant: is_enabled() is not consulted, a disabled button is clicked too
_perform_renewal_click_unchecked ==
    /\ pc = "renew_locate"
    /\ \E outcome \in RenewOutcomes, dialog \in SUBSET {"restricted", "confirm"} :
         IF outcome \in {"clicked", "disabled"}
         THEN /\ Called({"click_renew"})
              /\ obs' = [obs EXCEPT !.renew = outcome, !.dialog = dialog]
              /\ pc' = "dialog"
              /\ no_screenshot
              /\ UNCHANGED success
         ELSE IF outcome = "disabled"
         THEN /\ Observe("renew", outcome)
              /\ UNCHANGED calls
              /\ no_screenshot
              /\ Return(TRUE)
         ELSE /\ Observe("renew", outcome)
              /\ IF outcome = "click_error" THEN Called({"click_renew"}) ELSE UNCHANGED calls
              /\ _take_screenshot("renewal_failed")
              /\ Return(TRUE)
    /\ UNCHANGED <<env, cookie_value, email, password, run_results, page_url, cookies,
                   browser, strategy, readme, exit_code, date_parts, date_str, converted>>

\* _perform_renewal, step 2: wait for the Renew button, click it when enabled;
\* the click opens a dialog (or both, or none) on the page
_perform_renewal_click ==
    /\ pc = "renew_locate"
    /\ \E outcome \in RenewOutcomes, dialog \in SUBSET {"restricted", "confirm"} :
         IF outcome = "clicked"
         THEN /\ Called({"click_renew"})
              /\ obs' = [obs EXCEPT !.renew = outcome, !.dialog = dialog]
              /\ pc' = "dialog"
              /\ no_screenshot
              /\ UNCHANGED success
         ELSE IF outcome = "disabled"
         THEN /\ Observe("renew", outcome)
              /\ UNCHANGED calls
              /\ no_screenshot
              /\ Return(TRUE)
         ELSE /\ Observe("renew", outcome)
              /\ IF outcome = "click_error" THEN Called({"click_renew"}) ELSE UNCHANGED calls
              /\ _take_screenshot("renewal_failed")
              /\ Return(TRUE)
    /\ UNCHANGED <<env, cookie_value, email, password, run_results, page_url, cookies,
                   browser, strategy, readme, exit_code, date_parts, date_str, converted>>


\* variant: the restriction dialog yields to a confirmation dialog that is
\* visible too
_check_renewal_restriction_yielding ==
    /\ pc = "dialog"
    /\ Called({"_check_renewal_restriction"})
    /\ \E looked \in {"error", "seen"}, text \in {"error", "read"}, message \in Messages :
         IF looked = "seen" /\ "restricted" \in obs.dialog /\ "confirm" \notin obs.dialog
         THEN LET remaining_days == IF text = "read"
                                    THEN _extract_remaining_days(message) ELSE None
              IN  /\ run_results' =
                        [run_results EXCEPT
                            !.remaining_days = IF TruthyInt(remaining_days)
                                               THEN remaining_days ELSE @,
                            !.renewal_status = "Unexpired"]
                  /\ obs' = [obs EXCEPT !.restriction = IF text = "read" THEN "visible"
                                                        ELSE "text_error",
                                        !.message = IF text = "read" THEN message ELSE None]
                  /\ _take_screenshot("renewal_restricted")
                  /\ Return(TRUE)
         ELSE /\ Observe("restriction", IF looked = "error" THEN "error" ELSE "hidden")
              /\ pc' = "confirmation"
              /\ no_screenshot
              /\ UNCHANGED <<run_results, success>>
    /\ UNCHANGED <<env, cookie_value, email, password, page_url, cookies, browser,
                   strategy, readme, exit_code, date_parts, date_str, converted>>

\* _handle_renewal_dialog, first check: _check_renewal_restriction
_check_renewal_restriction ==
    /\ pc = "dialog"
    /\ Called({"_check_renewal_restriction"})
    /\ \E looked \in {"error", "seen"}, text \in {"error", "read"}, message \in Messages :
         IF looked = "seen" /\ "restricted" \in obs.dialog
         THEN LET remaining_days == IF text = "read"
                                    THEN _extract_remaining_days(message) ELSE None
              IN  /\ run_results' =
                        [run_results EXCEPT
                            !.remaining_days = IF TruthyInt(remaining_days)
                                               THEN remaining_days ELSE @,
                            !.renewal_status = "Unexpired"]
                  /\ obs' = [obs EXCEPT !.restriction = IF text = "read" THEN "visible"
                                                        ELSE "text_error",
                                        !.message = IF text = "read" THEN message ELSE None]
                  /\ _take_screenshot("renewal_restricted")
                  /\ Return(TRUE)
         ELSE /\ Observe("restriction", IF looked = "error" THEN "error" ELSE "hidden")
              /\ pc' = "confirmation"
              /\ no_screenshot
              /\ UNCHANGED <<run_results, success>>
    /\ UNCHANGED <<env, cookie_value, email, password, page_url, cookies, browser,
                   strategy, readme, exit_code, date_parts, date_str, converted>>

\* what the confirmation check can meet once the dialog is visible
InvoiceButtonOutcomes == {"no_button", "button_error", "click_error", "clicked"}

\* _handle_renewal_dialog, second check: _check_renewal_confirmation
_check_renewal_confirmation ==
    /\ pc = "confirmation"
    /\ \E looked \in {"error", "seen"}, button \in InvoiceButtonOutcomes :
         IF looked = "seen" /\ "confirm" \in obs.dialog
         THEN /\ Observe("confirmation", button)
              /\ IF button = "clicked"
                 THEN /\ Called({"_check_renewal_confirmation", "click_create_invoice"})
                      /\ pc' = "invoice"
                      /\ no_screenshot
                      /\ UNCHANGED success
                 ELSE /\ IF button = "click_error"
                         THEN Called({"_check_renewal_confirmation", "click_create_invoice"})
                         ELSE Called({"_check_renewal_confirmation"})
                      /\ _take_screenshot(IF button = "no_button" THEN "renewal_dialog_error"
                                          ELSE "unexpected_dialog")
                      /\ Return(TRUE)
         ELSE /\ Observe("confirmation", IF looked = "error" THEN "error" ELSE "hidden")
              /\ Called({"_check_renewal_confirmation"})
              /\ _take_screenshot("unexpected_dialog")
              /\ Return(TRUE)
    /\ UNCHANGED <<env, cookie_value, email, password, run_results, page_url, cookies,
                   browser, strategy, readme, exit_code, date_parts, date_str, converted>>

\* what the invoice page check can meet
InvoiceOutcomes == {"error", "not_ready", "not_ready_log_error", "pay_error", "paid"}


\* variant: Pay is clicked although the invoice page was not confirmed
_handle_invoice_and_payment_unchecked ==
    /\ pc = "invoice"
    /\ \E outcome \in InvoiceOutcomes :
         /\ Observe("invoice", outcome)
         /\ IF outcome \in {"paid", "not_ready"}
            THEN /\ Called({"click_pay"})
                 /\ page_url' = "invoice"
                 /\ pc' = "payment"
                 /\ no_screenshot
                 /\ UNCHANGED success
            ELSE /\ IF outcome = "pay_error" THEN Called({"click_pay"}) ELSE UNCHANGED calls
                 /\ page_url' = IF outcome \in {"pay_error", "not_ready_log_error"}
                                THEN "invoice" ELSE page_url
                 /\ _take_screenshot("invoice_payment_failed")
                 /\ Return(TRUE)
    /\ UNCHANGED <<env, cookie_value, email, password, run_results, cookies, browser,
                   strategy, readme, exit_code, date_parts, date_str, converted>>

\* _handle_invoice_and_payment: Pay is clicked only on a confirmed invoice page
_handle_invoice_and_payment ==
    /\ pc = "invoice"
    /\ \E outcome \in InvoiceOutcomes :
         /\ Observe("invoice", outcome)
         /\ IF outcome = "paid"
            THEN /\ Called({"click_pay"})
                 /\ page_url' = "invoice"
                 /\ pc' = "payment"
                 /\ no_screenshot
                 /\ UNCHANGED success
            ELSE /\ IF outcome = "pay_error" THEN Called({"click_pay"}) ELSE UNCHANGED calls
                 /\ page_url' = IF outcome \in {"pay_error", "not_ready_log_error"}
                                THEN "invoice" ELSE page_url
                 /\ _take_screenshot(IF outcome = "not_ready" THEN "invoice_page_error"
                                     ELSE "invoice_payment_failed")
                 /\ Return(TRUE)
    /\ UNCHANGED <<env, cookie_value, email, password, run_results, cookies, browser,
                   strategy, readme, exit_code, date_parts, date_str, converted>>


\* variant: a redirect that timed out is taken for a completed payment
_check_payment_result_redirect_guess ==
    /\ pc = "payment"
    /\ \E redirected \in BOOLEAN :
         IF redirected
         THEN /\ Observe("redirect", "ok")
              /\ page_url' = "dashboard"
              /\ pc' = "payment_detect"
              /\ no_screenshot
              /\ UNCHANGED <<success, run_results>>
         ELSE /\ Observe("redirect", "timeout")
              /\ run_results' = [run_results EXCEPT !.renewal_status = "Success"]
              /\ _take_screenshot("payment_result_unknown")
              /\ Return(TRUE)
              /\ UNCHANGED page_url
    /\ UNCHANGED <<env, cookie_value, email, password, cookies, browser,
                   strategy, readme, exit_code, calls, date_parts, date_str, converted>>

\* _check_payment_result: page.wait_for_url("**/dashboard")
_check_payment_result_redirect ==
    /\ pc = "payment"
    /\ \E redirected \in BOOLEAN :
         IF redirected
         THEN /\ Observe("redirect", "ok")
              /\ page_url' = "dashboard"
              /\ pc' = "payment_detect"
              /\ no_screenshot
              /\ UNCHANGED success
         ELSE /\ Observe("redirect", "timeout")
              /\ _take_screenshot("payment_result_unknown")
              /\ Return(TRUE)
              /\ UNCHANGED page_url
    /\ UNCHANGED <<env, cookie_value, email, password, run_results, cookies, browser,
                   strategy, readme, exit_code, calls, date_parts, date_str, converted>>

\* _detect_payment_success: True when both texts appear; a timeout or an error
\* inside the detection gives False
_detect_payment_success(outcome) == outcome = "detected"

\* the status _check_payment_result records after the redirect
\* variant: Success only when the success text was detected
payment_status_if_detected(payment_success_detected) ==
    IF payment_success_detected THEN "Success" ELSE run_results.renewal_status

payment_status(payment_success_detected) == "Success"

\* _check_payment_result after the redirect: detection, screenshot, status
_check_payment_result_detect ==
    /\ pc = "payment_detect"
    /\ \E outcome \in {"detected", "not_detected", "error"} :
         LET payment_success_detected == _detect_payment_success(outcome)
         IN  /\ Observe("detect", outcome)
             /\ _take_screenshot(IF payment_success_detected THEN "renewal_payment_success"
                                 ELSE "payment_inferred_success")
             /\ run_results' = [run_results EXCEPT
                                  !.renewal_status = payment_status(payment_success_detected)]
    /\ pc' = "payment_goto"
    /\ UNCHANGED <<env, cookie_value, email, password, page_url, cookies, browser,
                   strategy, success, readme, exit_code, calls, date_parts, date_str, converted>>

\* _check_payment_result: page.goto(server_url) after the payment
_check_payment_result_goto ==
    /\ pc = "payment_goto"
    /\ \E loaded \in BOOLEAN :
         IF loaded
         THEN /\ page_url' = "target"
              /\ pc' = "record_after"
              /\ no_screenshot
              /\ UNCHANGED success
         ELSE /\ _take_screenshot("payment_result_unknown")
              /\ Return(TRUE)
              /\ UNCHANGED page_url
    /\ UNCHANGED <<env, cookie_value, email, password, run_results, cookies, browser,
                   strategy, readme, exit_code, calls, obs, date_parts, date_str, converted>>


\* variant: a failed lookup after the payment puts the status back to Unknown
_check_payment_result_record_resetting ==
    /\ pc = "record_after"
    /\ \E lookup \in DueDateLookups :
         /\ run_results' =
                IF lookup.kind = "found"
                THEN _record_due_date("after", lookup)
                ELSE [run_results EXCEPT !.renewal_status = "Unknown"]
         /\ Observe("due_after", Some(lookup))
    /\ Return(TRUE)
    /\ UNCHANGED <<env, cookie_value, email, password, page_url, cookies, browser,
                   strategy, readme, exit_code, calls, screenshots,
                   date_parts, date_str, converted>>

\* _check_payment_result: the due date after the renewal
_check_payment_result_record ==
    /\ pc = "record_after"
    /\ \E lookup \in DueDateLookups :
         /\ run_results' = _record_due_date("after", lookup)
         /\ Observe("due_after", Some(lookup))
    /\ Return(TRUE)
    /\ UNCHANGED <<env, cookie_value, email, password, page_url, cookies, browser,
                   strategy, readme, exit_code, calls, screenshots,
                   date_parts, date_str, converted>>

-----------------------------------------------------------------------------
(* 2. login(): leaving the with block; 7. report; main(): exit *)


\* variant: the browser is closed only when a strategy succeeded
login_return_leaking ==
    /\ pc = "teardown"
    /\ browser' = IF success = Some(TRUE) THEN "closed" ELSE browser
    /\ pc' = "report"
    /\ UNCHANGED <<env, cookie_value, email, password, run_results, page_url, cookies,
                   strategy, success, readme, exit_code, calls, obs, screenshots,
                   date_parts, date_str, converted>>

\* the strategy has returned: the playwright context manager closes the browser
login_return ==
    /\ pc = "teardown"
    /\ browser' = "closed"
    /\ pc' = "report"
    /\ UNCHANGED <<env, cookie_value, email, password, run_results, page_url, cookies,
                   strategy, success, readme, exit_code, calls, obs,                    screenshots, date_parts, date_str, converted>>

\* the status text generate_readme renders
status_text(renewal_status) ==
    IF renewal_status = "Success" THEN "Success"
    ELSE IF renewal_status = "Unexpired" THEN "Unexpired"
    ELSE "Failed"

\* generate_readme: writing the file may fail, which is logged and swallowed
generate_readme ==
    /\ pc = "report"
    /\ Called({"generate_readme"})
    /\ \E written \in BOOLEAN :
         readme' = IF written
                   THEN Some([status_text |-> status_text(run_results.renewal_status),
                              remaining_days |->
                                  IF run_results.renewal_status = "Unexpired"
                                     /\ TruthyInt(run_results.remaining_days)
                                  THEN run_results.remaining_days ELSE None,
                              old_due_date |-> run_results.old_due_date,
                              new_due_date |->
                                  IF run_results.renewal_status = "Success"
                                     /\ TruthyStr(run_results.new_due_date)
                                  THEN run_results.new_due_date ELSE None])
                   ELSE readme
    /\ pc' = "exit"
    /\ UNCHANGED <<env, cookie_value, email, password, run_results, page_url, cookies,
                   browser, strategy, success, exit_code, obs, screenshots,
                   date_parts, date_str, converted>>

\* main(), step 5: sys.exit(0) when login() returned True, sys.exit(1) otherwise
main_exit ==
    /\ pc = "exit"
    /\ exit_code' = IF success = Some(TRUE) THEN Some(0) ELSE Some(1)
    /\ pc' = "exited"
    /\ UNCHANGED <<env, cookie_value, email, password, run_results, page_url, cookies,
                   browser, strategy, success, readme, calls, obs,                    screenshots, date_parts, date_str, converted>>

-----------------------------------------------------------------------------
(* The run *)

Next ==
    \/ __init__
    \/ login_start
    \/ _try_cookie_login_skip
    \/ _set_cookies
    \/ _try_cookie_login_goto
    \/ _try_password_login_skip
    \/ _try_password_login_goto
    \/ _try_password_login_fill
    \/ _handle_cloudflare_verification
    \/ _try_password_login_submit
    \/ _try_password_login_wait
    \/ _try_password_login_target
    \/ _perform_renewal_record
    \/ _perform_renewal_click
    \/ _check_renewal_restriction
    \/ _check_renewal_confirmation
    \/ _handle_invoice_and_payment
    \/ _check_payment_result_redirect
    \/ _check_payment_result_detect
    \/ _check_payment_result_goto
    \/ _check_payment_result_record
    \/ login_return
    \/ generate_readme
    \/ main_exit

Spec == Init /\ [][Next]_vars

-----------------------------------------------------------------------------
(* The conversion check: _convert_date_format applied to one input *)

Tok_1    == <<"1">>
Tok_24   == <<"2", "4">>
Tok_sign == <<"-">>
Tok_Xyz  == <<"X", "y", "z">>
Tok_2025 == <<"2", "0", "2", "5">>
Tok_2026 == <<"2", "0", "2", "6">>
Tok_not  == <<"n", "o", "t">>
Tok_a    == <<"a">>
Tok_date == <<"d", "a", "t", "e">>

\* tokens of arbitrary inputs
ConvertTokens == {Tok_1, Tok_24, Tok_sign, Sep, Tok_Xyz, Tok_2025, Tok_not, Tok_a, Tok_date}

RECURSIVE TokenSeqs(_)
TokenSeqs(n) ==
    IF n = 0 THEN {<<>>}
    ELSE LET shorter == TokenSeqs(n - 1)
         IN  shorter \cup {Append(ts, t) : ts \in {x \in shorter : Len(x) = n - 1},
                                          t \in ConvertTokens}

\* day, month (known or not), year
DateShaped == {<<d, m, y>> : d \in {Tok_1, Tok_24}, m \in month_map_keys \cup {Tok_Xyz},
                             y \in {Tok_2025, Tok_2026}}

RECURSIVE Join(_, _)
Join(ts, sep) ==
    IF ts = <<>> THEN <<>>
    ELSE IF Len(ts) = 1 THEN ts[1]
    ELSE ts[1] \o sep \o Join(Tail(ts), sep)

\* the input written from its tokens: one or two blanks between tokens,
\* with or without blanks around
Written(ts, wide, padded) ==
    LET body == Join(ts, IF wide THEN <<" ", " ">> ELSE <<" ">>)
    IN  IF padded THEN <<" ">> \o body \o <<" ">> ELSE body

InitConvert ==
    /\ InitRun([servers |-> "unset", cookie |-> None, account |-> None])
    /\ date_parts \in TokenSeqs(MaxTokens) \cup DateShaped
    /\ \E wide \in BOOLEAN, padded \in BOOLEAN : date_str = Written(date_parts, wide, padded)
    /\ converted = None

convert ==
    /\ converted = None
    /\ converted' = Some(_convert_date_format(date_str))
    /\ UNCHANGED <<runVars, date_parts, date_str>>

NextConvert == convert

SpecConvert == InitConvert /\ [][NextConvert]_vars

-----------------------------------------------------------------------------
(* Properties *)

IsDigits(t) == t # <<>> /\ \A i \in 1..Len(t) : t[i] \in Digits

Raw_not_a_date == <<Tok_not, Tok_a, Tok_date>>

\* C5: the date conversion returns the input "not a date" unchanged.
C5_NotADateUnchanged ==
    (converted # None /\ date_parts = Raw_not_a_date) => converted = Some(date_str)

\* the two-digit number of a month abbreviation, "00" for anything else
MonthNumber(m) ==
    CASE m = Jan -> <<"0", "1">> [] m = Feb -> <<"0", "2">> [] m = Mar -> <<"0", "3">>
      [] m = Apr -> <<"0", "4">> [] m = May -> <<"0", "5">> [] m = Jun -> <<"0", "6">>
      [] m = Jul -> <<"0", "7">> [] m = Aug -> <<"0", "8">> [] m = Sep -> <<"0", "9">>
      [] m = Oct -> <<"1", "0">> [] m = Nov -> <<"1", "1">> [] m = Dec -> <<"1", "2">>
      [] OTHER -> <<"0", "0">>

LeftPad2(d) == IF Len(d) < 2 THEN <<"0">> \o d ELSE d

Iso(y, mm, dd) == y \o <<"-">> \o mm \o <<"-">> \o dd

\* C6: an input of exactly three whitespace-separated tokens "D Mon YYYY" (D and
\* YYYY numbers) converts to "YYYY-MM-DD": DD is D left-padded with a zero to two
\* digits, MM the month's two-digit number, "00" for an unknown abbreviation; so
\* "24 Sep 2025" gives "2025-09-24" and "1 Jan 2026" gives "2026-01-01".
C6_ThreeTokensToIso ==
    /\ (/\ converted # None
        /\ Len(date_parts) = 3
        /\ IsDigits(date_parts[1])
        /\ IsDigits(date_parts[3]))
       => converted = Some(Iso(date_parts[3], MonthNumber(date_parts[2]),
                               LeftPad2(date_parts[1])))
    /\ (converted # None /\ date_parts = <<Tok_24, Sep, Tok_2025>>)
       => converted = Some(<<"2", "0", "2", "5", "-", "0", "9", "-", "2", "4">>)
    /\ (converted # None /\ date_parts = <<Tok_1, Jan, Tok_2026>>)
       => converted = Some(<<"2", "0", "2", "6", "-", "0", "1", "-", "0", "1">>)

\* C6 witness: "1 Xyz 2026", written with wide blanks, was converted to "2026-00-01"
C6_Witness ==
    /\ date_parts = <<Tok_1, Tok_Xyz, Tok_2026>>
    /\ date_str = Written(date_parts, TRUE, TRUE)
    /\ converted = Some(<<"2", "0", "2", "6", "-", "0", "0", "-", "0", "1">>)

\* the run is over: login() has returned and main() has exited
Exited == pc = "exited"
\* login() has returned
LoginReturned == pc \in {"report", "exit", "exited"}

\* C1: the exit code is 0 exactly on authenticated runs whose final renewal_status
\* is Success or Unexpired; every other run exits non-zero.
C1_ExitCodeByStatus ==
    Exited =>
        /\ exit_code \in {Some(0), Some(1)}
        /\ exit_code = Some(0) <=>
               /\ success = Some(TRUE)
               /\ run_results.renewal_status \in {"Success", "Unexpired"}

\* C2: when a cookie is present and the target navigation with it lands on a page
\* that is not the login page, login() returns True and _try_password_login is
\* never invoked, whatever happens in the renewal.
C2_CookieAuthenticated ==
    obs.cookie_goto = "target" =>
        /\ strategy = "cookie"
        /\ calls["_try_password_login"] = 0
        /\ calls["goto_login"] = 0
        /\ LoginReturned => success = Some(TRUE)

\* C2 witness: a cookie-authenticated run whose payment redirect timed out has exited
C2_Witness ==
    /\ Exited
    /\ obs.cookie_goto = "target"
    /\ obs.redirect = "timeout"
    /\ run_results.renewal_status = "Unknown"
    /\ success = Some(TRUE)

\* an e-mail/password pair was loaded
PairLoaded == TruthyStr(email) /\ TruthyStr(password)

\* C3: when the cookie is invalid (the target navigation lands on the login page)
\* and a pair is present, credential login is invoked exactly once in the run, and
\* when it succeeds login() returns True under the password strategy.
C3_PasswordFallbackOnce ==
    /\ calls["_try_password_login"] <= 1
    /\ (obs.cookie_goto = "login" /\ PairLoaded /\ LoginReturned) =>
           /\ calls["_try_password_login"] = 1
           /\ calls["goto_login"] = 1
           /\ (obs.dashboard = "dashboard" /\ obs.target = "loaded") =>
                  (strategy = "password" /\ success = Some(TRUE))

\* C3 witness: after an invalid cookie the password login succeeded and the run exited
C3_Witness ==
    /\ Exited
    /\ obs.cookie_goto = "login"
    /\ PairLoaded
    /\ obs.dashboard = "dashboard"
    /\ obs.target = "loaded"
    /\ strategy = "password"
    /\ calls["_try_password_login"] = 1
    /\ success = Some(TRUE)

\* C4: when the cookie is invalid and no pair is present, login() returns False
\* and the login page URL is never navigated to.
C4_NoPairFails ==
    (obs.cookie_goto = "login" /\ ~PairLoaded) =>
        /\ calls["goto_login"] = 0
        /\ LoginReturned => success = Some(FALSE)

\* C4 witness: a run with an invalid cookie and an account string without e-mail
\* has exited with code 1
C4_Witness ==
    /\ Exited
    /\ obs.cookie_goto = "login"
    /\ env.account = Some(Str_p)
    /\ ~PairLoaded
    /\ exit_code = Some(1)

\* C7: when the restriction dialog is visible and its message holds "expires in
\* N days", the run ends with renewal_status Unexpired and remaining_days = N,
\* for every N >= 0.
C7_RestrictedDays ==
    (Exited /\ obs.restriction = "visible" /\ obs.message # None) =>
        /\ run_results.renewal_status = "Unexpired"
        /\ run_results.remaining_days = Some(int(TheValue(obs.message)))

\* the page showed a due date before, and a later one after the payment
LaterDueDateShown ==
    /\ obs.due_before # None
    /\ obs.due_after # None
    /\ TheValue(obs.due_before).kind = "found"
    /\ TheValue(obs.due_after).kind = "found"
    /\ TheValue(obs.due_after).date > TheValue(obs.due_before).date

\* C8: Renew enabled and clicked, confirmation dialog, invoice page detected, Pay
\* clicked, redirect to the dashboard, a due date before and a later one after:
\* the run ends with Success and old_due_date and new_due_date set and different.
C8_EndToEndSuccess ==
    (/\ Exited
     /\ obs.renew = "clicked"
     /\ obs.confirmation = "clicked"
     /\ obs.invoice = "paid"
     /\ obs.redirect = "ok"
     /\ LaterDueDateShown) =>
        /\ run_results.renewal_status = "Success"
        /\ run_results.old_due_date # None
        /\ run_results.new_due_date # None
        /\ run_results.old_due_date # run_results.new_due_date

\* C8 witness: the end-to-end run has exited, dates 1 and 2 shown, the second with a remark
C8_Witness ==
    /\ Exited
    /\ obs.invoice = "paid"
    /\ obs.redirect = "ok"
    /\ LaterDueDateShown
    /\ TheValue(obs.due_after).remark
    /\ run_results.renewal_status = "Success"
    /\ run_results.old_due_date = Some(<<"2", "0", "2", "5", "-", "0", "1", "-", "0", "7">>)
    /\ run_results.new_due_date = Some(DueDateText(2) \o Remark)

\* C9: when the Renew button is visible but disabled it is not clicked, neither
\* dialog check is performed, and renewal_status is Unknown at the end of the run.
C9_DisabledRenew ==
    obs.renew = "disabled" =>
        /\ calls["click_renew"] = 0
        /\ calls["_check_renewal_restriction"] = 0
        /\ calls["_check_renewal_confirmation"] = 0
        /\ run_results.renewal_status = "Unknown"

\* C9 witness: a run that found the Renew button disabled has exited
C9_Witness ==
    /\ Exited
    /\ obs.renew = "disabled"
    /\ run_results.renewal_status = "Unknown"

\* C10: once Pay was clicked and the redirect to the dashboard observed, the
\* status is Success whether the success text was detected, was not detected, or
\* its detection failed.
C10_RedirectMeansSuccess ==
    (obs.redirect = "ok" /\ obs.detect # "none") =>
        /\ calls["click_pay"] = 1
        /\ run_results.renewal_status = "Success"

\* C10 witness: the run has exited with Success although the detection failed
C10_Witness ==
    /\ Exited
    /\ obs.redirect = "ok"
    /\ obs.detect = "error"
    /\ run_results.renewal_status = "Success"

\* HidenCloudLogin() returned an object: the configuration was accepted
Constructed == run_results.renewal_status # "Unconstructed"

\* C11: when login() fails (both strategies fail, or the browser start raises),
\* it returns False, generate_readme still runs with the outcome rendered as
\* Failed, and the process exits non-zero only after that.
C11_FailedLoginStillReports ==
    /\ (Constructed /\ LoginReturned) => success \in {Some(TRUE), Some(FALSE)}
    /\ (Constructed /\ exit_code # None) => calls["generate_readme"] = 1
    /\ success = Some(FALSE) =>
         /\ run_results.renewal_status = "Unknown"
         /\ status_text(run_results.renewal_status) = "Failed"
         /\ readme # None => TheValue(readme).status_text = "Failed"
         /\ exit_code # None => exit_code = Some(1)
         /\ Exited => exit_code = Some(1)

\* C11 witness: the cookie landed on the login page, the password login timed
\* out, and the run has written a Failed report and exited 1
C11_Witness ==
    /\ Exited
    /\ obs.cookie_goto = "login"
    /\ obs.dashboard = "timeout"
    /\ success = Some(FALSE)
    /\ readme # None
    /\ TheValue(readme).status_text = "Failed"
    /\ exit_code = Some(1)

\* the position of the first ':' of s, 0 when there is none
FirstColon(s) ==
    IF \E i \in 1..Len(s) : s[i] = ":"
    THEN CHOOSE i \in 1..Len(s) : s[i] = ":" /\ \A j \in 1..(i - 1) : s[j] # ":"
    ELSE 0

\* the environment holds a cookie token
EnvCookieToken == TruthyStr(env.cookie)
\* the environment holds a login and a secret around a ':'
EnvCompletePair ==
    /\ env.account # None
    /\ LET a == TheValue(env.account)
       IN  FirstColon(a) > 1 /\ FirstColon(a) < Len(a)

\* C12: with a missing, empty or invalid server list, or with neither a cookie
\* nor a complete pair, the process exits non-zero before any browser launch or
\* automation step; once automation begins a cookie or a pair is loaded.
C12_ConfigErrorsExitEarly ==
    /\ (pc # "start" /\ (env.servers # "ok" \/ (~EnvCookieToken /\ ~EnvCompletePair))) =>
         /\ Exited
         /\ exit_code = Some(1)
         /\ browser = "none"
         /\ calls = [n \in CallNames |-> 0]
         /\ obs = NoObs
         /\ screenshots = {}
         /\ readme = None
    /\ (pc \notin {"start", "exited"} \/ browser # "none" \/ calls # [n \in CallNames |-> 0]) =>
         /\ Constructed
         /\ TruthyStr(cookie_value) \/ PairLoaded

\* C12 witness: a server list, an empty cookie and an account without ':' ended
\* the process with exit code 1 and no browser
C12_Witness ==
    /\ Exited
    /\ env.servers = "ok"
    /\ env.cookie = Some(<<>>)
    /\ env.account = Some(Str_up)
    /\ exit_code = Some(1)
    /\ browser = "none"

\* C13: "L:S" is split on the first ':' only: with S holding a ':', the loaded
\* pair is (L, S) with S whole and is used, not discarded.
C13_SplitOnFirstColon ==
    (Constructed /\ env.account = Some(Str_u_p_q)) =>
        /\ email = Some(<<"u">>)
        /\ password = Some(<<"p", ":", "q">>)

\* C14: renewal_status = Success implies that Renew was clicked, the confirmation
\* dialog recognised, Create Invoice clicked, the invoice page confirmed, Pay
\* clicked and the redirect observed, each step only after the one before; a
\* timeout or an error at any of these steps leaves the status Unknown.
C14_SuccessNeedsEveryStep ==
    /\ run_results.renewal_status = "Success" =>
         /\ obs.renew = "clicked" /\ calls["click_renew"] = 1
         /\ obs.confirmation = "clicked" /\ calls["click_create_invoice"] = 1
         /\ obs.invoice = "paid" /\ calls["click_pay"] = 1
         /\ obs.redirect = "ok"
    /\ obs.redirect # "none" => obs.invoice = "paid"
    /\ obs.invoice # "none" => obs.confirmation = "clicked"
    /\ obs.confirmation # "none" => obs.renew = "clicked"
    /\ calls["click_pay"] > 0 => calls["click_create_invoice"] = 1
    /\ calls["click_create_invoice"] > 0 => calls["click_renew"] = 1
    /\ (\/ obs.renew \in RenewOutcomes \ {"clicked"}
        \/ obs.confirmation \in {"no_button", "button_error", "click_error", "error", "hidden"}
        \/ obs.invoice \in InvoiceOutcomes \ {"paid"}
        \/ obs.redirect = "timeout") =>
         run_results.renewal_status = "Unknown"

\* C14 witness: a run has exited with Success after all six steps
C14_Witness ==
    /\ Exited
    /\ run_results.renewal_status = "Success"
    /\ obs.renew = "clicked"
    /\ obs.confirmation = "clicked"
    /\ obs.invoice = "paid"
    /\ obs.redirect = "ok"

\* the screenshots of _handle_invoice_and_payment's two failure branches
InvoiceDiagnostics == {"invoice_page_error", "invoice_payment_failed"}

\* C15: Pay is clicked only after Create Invoice and on a confirmed invoice page;
\* without the confirmation Pay is never clicked, the status stays Unknown and a
\* diagnostic screenshot is taken; a run that reaches neither Success nor
\* Unexpired ends with Unknown, rendered as Failed.
C15_PayOnlyOnInvoicePage ==
    /\ calls["click_pay"] > 0 =>
         /\ calls["click_create_invoice"] = 1
         /\ obs.invoice \in {"paid", "pay_error"}
    /\ obs.invoice \in {"error", "not_ready", "not_ready_log_error"} =>
         /\ calls["click_pay"] = 0
         /\ run_results.renewal_status = "Unknown"
         /\ screenshots \cap InvoiceDiagnostics # {}
    /\ (Exited /\ Constructed) =>
         /\ run_results.renewal_status \in {"Success", "Unexpired", "Unknown"}
         /\ run_results.renewal_status = "Unknown" =>
              /\ status_text(run_results.renewal_status) = "Failed"
              /\ readme # None => TheValue(readme).status_text = "Failed"

\* C15 witness: the invoice page was not confirmed, and the run exited with
\* Unknown, a screenshot and a Failed report
C15_Witness ==
    /\ Exited
    /\ obs.invoice = "not_ready"
    /\ calls["click_create_invoice"] = 1
    /\ calls["click_pay"] = 0
    /\ "invoice_page_error" \in screenshots
    /\ run_results.renewal_status = "Unknown"
    /\ readme # None
    /\ TheValue(readme).status_text = "Failed"

\* C16: the restriction dialog is checked before the confirmation dialog: with
\* both seen the run is restricted and Create Invoice is never clicked; with
\* neither matched there is no further click, the status stays Unknown and the
\* unexpected_dialog screenshot is taken.
C16_RestrictionBeforeConfirmation ==
    /\ calls["_check_renewal_confirmation"] > 0 => calls["_check_renewal_restriction"] = 1
    /\ obs.confirmation # "none" => obs.restriction \in {"hidden", "error"}
    /\ (obs.dialog = {"restricted", "confirm"} /\ obs.restriction \notin {"none", "error"}) =>
         /\ run_results.renewal_status = "Unexpired"
         /\ calls["_check_renewal_confirmation"] = 0
         /\ calls["click_create_invoice"] = 0
         /\ calls["click_pay"] = 0
    /\ (obs.restriction \in {"hidden", "error"} /\ obs.confirmation \in {"hidden", "error"}) =>
         /\ calls["click_create_invoice"] = 0
         /\ calls["click_pay"] = 0
         /\ run_results.renewal_status = "Unknown"
         /\ "unexpected_dialog" \in screenshots

\* C16 witness: both dialogs were visible and the run exited as restricted
\* without a click on Create Invoice
C16_Witness ==
    /\ Exited
    /\ obs.dialog = {"restricted", "confirm"}
    /\ obs.restriction = "visible"
    /\ run_results.renewal_status = "Unexpired"
    /\ calls["click_create_invoice"] = 0

\* C17: the cookie login is attempted before the password login; the password
\* login starts only after the cookie attempt failed or was skipped, and neither
\* strategy runs more than once.
C17_CookieBeforePassword ==
    /\ calls["_try_cookie_login"] <= 1
    /\ calls["_try_password_login"] <= 1
    /\ calls["goto_login"] <= 1
    /\ (calls["_try_password_login"] > 0 \/ pc = "password") =>
         /\ calls["_try_cookie_login"] = 1
         /\ obs.cookie_goto # "target"
         /\ TruthyStr(cookie_value) \/ obs.cookie_goto = "none"
    /\ obs.cookie_goto = "target" => calls["_try_password_login"] = 0
    /\ obs.cookie_goto # "none" => TruthyStr(cookie_value)

\* C17 witness: with a cookie and a pair loaded, the cookie attempt failed on
\* the login page, the password login ran once, and the run has exited
C17_Witness ==
    /\ Exited
    /\ TruthyStr(cookie_value)
    /\ PairLoaded
    /\ obs.cookie_goto = "login"
    /\ calls["_try_cookie_login"] = 1
    /\ calls["_try_password_login"] = 1

\* C18: whatever the challenge step met, it returns and the submit click is
\* attempted next; a password login that then fails does so at the submit click,
\* the dashboard wait or the target navigation, never at the challenge step.
C18_ChallengeNeverFailsLogin ==
    /\ pc = "pw_submit" => obs.challenge # "none"
    /\ (obs.challenge # "none" /\ pc # "pw_submit") =>
         /\ calls["click_submit"] = 1
         /\ obs.submit # "none"
    /\ (obs.challenge # "none" /\ success = Some(FALSE)) =>
         \/ obs.submit = "error"
         \/ obs.dashboard \in {"login", "timeout"}
         \/ obs.target = "error"

\* C18 witness: the challenge token timed out, the form was submitted and the
\* run exited after an authenticated login
C18_Witness ==
    /\ Exited
    /\ obs.challenge = "token_timeout"
    /\ obs.submit = "clicked"
    /\ strategy = "password"
    /\ success = Some(TRUE)

\* the lookup met the label hidden and the i-th date elsewhere on the page
LabelHiddenDateElsewhere(o) ==
    /\ o # None
    /\ TheValue(o).kind = "label_hidden"
    /\ TheValue(o).date > 0

\* C19: when the "Due date" label is not visible but a date-shaped token is
\* elsewhere on the page, the extraction records the ISO-8601 conversion of that
\* token in the field of its stage.
C19_FallbackAnywhere ==
    /\ LabelHiddenDateElsewhere(obs.due_before) =>
         run_results.old_due_date =
             Some(_convert_date_format(DueDateText(TheValue(obs.due_before).date)))
    /\ LabelHiddenDateElsewhere(obs.due_after) =>
         run_results.new_due_date =
             Some(_convert_date_format(DueDateText(TheValue(obs.due_after).date)))

\* the lookup found no date: label or date not visible, or an exception
LookupFailed(o) == o # None /\ TheValue(o).kind \in {"error", "label_hidden", "date_hidden"}

\* C20: a failed due-date lookup leaves its field unset and the transaction goes
\* on: after a failed lookup before the renewal the Renew button is still looked
\* up, and after a failed lookup behind the payment the status remains Success.
C20_FailedLookupGoesOn ==
    /\ LookupFailed(obs.due_before) =>
         /\ run_results.old_due_date = None
         /\ pc = "renew_locate" \/ obs.renew # "none"
    /\ LookupFailed(obs.due_after) =>
         /\ run_results.new_due_date = None
         /\ run_results.renewal_status = "Success"

\* C20 witness: both lookups failed, Renew was clicked all the same, and the run
\* exited with Success and both dates unset
C20_Witness ==
    /\ Exited
    /\ LookupFailed(obs.due_before)
    /\ TheValue(obs.due_before).kind = "error"
    /\ LookupFailed(obs.due_after)
    /\ TheValue(obs.due_after).kind = "date_hidden"
    /\ obs.renew = "clicked"
    /\ calls["click_renew"] = 1
    /\ run_results.old_due_date = None
    /\ run_results.new_due_date = None
    /\ run_results.renewal_status = "Success"

\* the cached-session token _set_cookies added is in the cookie store
TokenInStore == "remember_web" \in cookies

\* C21: when the navigation with the cookie lands on the login page, the token
\* is cleared from the cookie store before the cookie attempt returns, so the
\* password login that follows starts with an empty cookie store.
C21_StaleCookieCleared ==
    obs.cookie_goto = "login" =>
        /\ ~TokenInStore
        /\ cookies = {}
        /\ strategy # "cookie"
        /\ pc \notin {"cookie", "cookie_goto"}

\* C21 witness: the cookie landed on the login page and the login page was then
\* opened by the password login with an empty cookie store
C21_Witness ==
    /\ obs.cookie_goto = "login"
    /\ calls["goto_login"] = 1
    /\ pc = "pw_fill"
    /\ cookies = {}

\* C26: the password login never opens the login page while the injected token
\* is in the cookie store: whenever the cookie attempt failed after the token
\* was injected, the token was cleared first.
C26_NoTokenAtPasswordLogin ==
    (obs.cookie_goto # "none" /\ calls["goto_login"] > 0) => ~TokenInStore

\* C22: on every path out of login() with the browser started (cookie success,
\* password success, both strategies failed, an exception after the start) the
\* browser is closed.
C22_BrowserTornDown ==
    /\ (Constructed /\ LoginReturned) => browser \in {"none", "closed"}
    /\ (Constructed /\ LoginReturned /\ browser = "none") =>
         /\ calls["_try_cookie_login"] = 0
         /\ calls["_try_password_login"] = 0
         /\ success = Some(FALSE)
    /\ (calls["_try_cookie_login"] > 0 /\ LoginReturned) => browser = "closed"
    /\ browser = "open" => pc \notin {"start", "login", "report", "exit", "exited"}

\* C22 witness: both strategies failed and the run exited with the browser closed
C22_Witness ==
    /\ Exited
    /\ success = Some(FALSE)
    /\ calls["_try_cookie_login"] = 1
    /\ calls["_try_password_login"] = 1
    /\ obs.dashboard = "timeout"
    /\ browser = "closed"

\* C23: the renewal runs at most once per run: Renew, Create Invoice and Pay
\* are each clicked at most once, and no failure inside a renewal run under the
\* cookie login makes the cookie attempt fail and the password login start.
C23_RenewalAtMostOnce ==
    /\ calls["_perform_renewal"] <= 1
    /\ calls["click_renew"] <= 1
    /\ calls["click_create_invoice"] <= 1
    /\ calls["click_pay"] <= 1
    /\ strategy = "cookie" =>
         /\ calls["_try_password_login"] = 0
         /\ pc # "password"
         /\ LoginReturned => success = Some(TRUE)

\* C23 witness: with a pair loaded, the Renew click failed under the cookie
\* login and the run exited without a password login
C23_Witness ==
    /\ Exited
    /\ PairLoaded
    /\ strategy = "cookie"
    /\ obs.renew = "click_error"
    /\ calls["click_renew"] = 1
    /\ calls["_try_password_login"] = 0

\* C24: renewal_status is always one of Unknown, Success, Unexpired (Failed is
\* never stored), and once it has left Unknown no step changes it again.
C24_StatusWrittenOnce ==
    /\ [](Constructed => run_results.renewal_status \in {"Unknown", "Success", "Unexpired"})
    /\ [][run_results.renewal_status \in {"Success", "Unexpired"} =>
              run_results'.renewal_status = run_results.renewal_status]_vars
    /\ [][run_results.renewal_status # run_results'.renewal_status =>
              \/ run_results.renewal_status = "Unconstructed" /\
                 run_results'.renewal_status = "Unknown"
              \/ run_results.renewal_status = "Unknown" /\
                 run_results'.renewal_status \in {"Success", "Unexpired"}]_vars

\* C24 witness: Success was stored, the lookup after the payment failed, the
\* report was written and the run exited with the status still Success
C24_Witness ==
    /\ Exited
    /\ run_results.renewal_status = "Success"
    /\ LookupFailed(obs.due_after)
    /\ readme # None
    /\ TheValue(readme).status_text = "Success"

\* C25: when login() has returned, new_due_date is set only with Success and
\* remaining_days only with Unexpired; with Unknown, old_due_date is the only
\* optional field that can be set.
C25_FieldsAgreeWithStatus ==
    (Constructed /\ LoginReturned) =>
        /\ run_results.new_due_date # None => run_results.renewal_status = "Success"
        /\ run_results.remaining_days # None => run_results.renewal_status = "Unexpired"
        /\ run_results.renewal_status = "Unknown" =>
             /\ run_results.new_due_date = None
             /\ run_results.remaining_days = None

\* C25 witness: a run exited with Success, both due dates set and no remaining
\* days
C25_Witness ==
    /\ Exited
    /\ run_results.renewal_status = "Success"
    /\ run_results.old_due_date # None
    /\ run_results.new_due_date # None
    /\ run_results.remaining_days = None

=============================================================================
